---- MODULE Spec2Model ----
(***************************************************************************)
(* simple-state-engine (src/engine.py): a daemon holding named in-memory   *)
(* tables (SharedState) in a registry (StateRegistry), served one request  *)
(* at a time by main() through handle_message().                           *)
(*                                                                         *)
(* Representation                                                          *)
(*  - A JSON object / Python dict is a function from its keys to values;   *)
(*    the empty dict is <<>>.                                              *)
(*  - A JSON number used as an id is held in tenths, so that a number that *)
(*    is not an integer is representable: 10 is 1, 15 is 1.5, 20 is 2.     *)
(*    Python's int() truncates it (ToInt), and 1 is One.                   *)
(*  - Python's None is NoLimit for max_length, NoSchema for schema and     *)
(*    NoRecord for a record.                                               *)
(*  - An exception is the field `raised` of an operation's result; the     *)
(*    table that goes with it is the table as the exception left it.       *)
(***************************************************************************)
EXTENDS Integers, Sequences, FiniteSets, TLC

VARIABLES
    states,   \* registry.states: table name -> SharedState
    pc,       \* where main() is: "recv" (at sock.recv), "handle", "send",
              \* or "stopped" once an exception has left the loop
    msg,      \* the request of this turn of the loop (raw, before parsing)
    resp,     \* the response to msg, once handle_message has returned
    hook,     \* the persist() calls made while handling msg, in order
    locked,   \* the names of the tables whose lock (self.lock) is held
    tasks     \* the table operations callers other than main() have under
              \* way, when requests are handled concurrently

vars == <<states, pc, msg, resp, hook, locked, tasks>>

---------------------------------------------------------------------------
(* Bounds of the model *)

MaxBatch == 2      \* longest SET_STATE batch; capacity bounds are below it
MaxVersion == 2    \* writes accepted per table before the model stops writing
MaxTasks == 2      \* table operations under way at once, when concurrent

---------------------------------------------------------------------------
(* Values *)

One == 10
NoLimit == -1
NoSchema == {}
NoRecord == <<>>
NoRecords == <<>>

\* int(x) for a non-negative number x
ToInt(v) == (v \div One) * One

\* ids a request may carry: 1, 1.5 and 2
Ids == {One, One + 5, One + One}
Names == {"x", "y"}
StateNames == {"users"}
Caps == {NoLimit} \cup (0 .. MaxBatch - 1)

\* record payloads: with and without id, with and without the field "name"
Payloads ==
    {NoRecord}
    \cup {[name |-> v] : v \in Names}
    \cup {[id |-> i] : i \in Ids}
    \cup {[id |-> i, name |-> v] : i \in Ids, v \in Names}

RECURSIVE SeqsUpTo(_, _)
SeqsUpTo(S, n) ==
    IF n = 0 THEN {<<>>}
    ELSE LET shorter == SeqsUpTo(S, n - 1)
         IN shorter \cup {Append(s, x) : s \in {t \in shorter : Len(t) = n - 1}, x \in S}

Batches == SeqsUpTo(Payloads, MaxBatch)

\* d[k] = v on a dict d
Put(d, k, v) == [x \in DOMAIN d \cup {k} |-> IF x = k THEN v ELSE d[x]]

\* d without key k (del d[k], d.pop(k, None))
Drop(d, k) == [x \in DOMAIN d \ {k} |-> d[x]]

\* max(S, default=0)
Max(S) == IF S = {} THEN 0 ELSE CHOOSE m \in S : \A x \in S : x <= m

---------------------------------------------------------------------------
(* SharedState *)

\* SharedState.__init__
NewState(name, max_length) ==
    [name |-> name, max_length |-> max_length, records |-> NoRecords,
     version |-> 0, schema |-> NoSchema]

\* the result of an operation that returns `ret`, without calling persist
Return(st, ret) == [st |-> st, raised |-> "none", ret |-> ret, calls |-> <<>>]

\* the result of an operation that raises
Raise(st, kind) == [st |-> st, raised |-> kind, ret |-> FALSE, calls |-> <<>>]

\* `await self.persist(self.name, delta)` then `return ret`: the hook is
\* user code and may raise; the exception leaves the operation
Persist(st, delta, ret, hookFails) ==
    [st |-> st, raised |-> IF hookFails THEN "persist failed" ELSE "none",
     ret |-> ret, calls |-> <<[state |-> st.name, delta |-> delta]>>]

\* mutant of SkipSeen: the counter is used as it stands
SkipSeenNot(next_id, seen_ids) == next_id

\* while next_id in seen_ids: next_id += 1
RECURSIVE SkipSeen(_, _)
SkipSeen(next_id, seen_ids) ==
    IF next_id \in seen_ids THEN SkipSeen(next_id + One, seen_ids) ELSE next_id

\* _infer_schema: the schema a first record gives the table
InferSchema(record) == DOMAIN record \cup {"id"}

\* mutant of ValidFullSchema: a subset of the schema passes
ValidFullSchemaSubset(rec, schema) == DOMAIN rec \subseteq schema

\* _validate_full_schema: TRUE when the record passes
ValidFullSchema(rec, schema) == DOMAIN rec = schema

\* _validate_patch_schema: TRUE when the changes pass
ValidPatchSchema(changes, schema) == DOMAIN changes \ schema = {}

\* mutant of AtCapacity: > for >=
AtCapacityOffByOne(st) ==
    st.max_length # NoLimit /\ Cardinality(DOMAIN st.records) > st.max_length

\* max_length is set and len(self.records) has reached it
AtCapacity(st) ==
    st.max_length # NoLimit /\ Cardinality(DOMAIN st.records) >= st.max_length

\* the loop of set_state over records[i..], with its locals
RECURSIVE Normalize(_, _, _, _, _, _)
Normalize(records, i, next_id, seen_ids, normalized, schema) ==
    IF i > Len(records)
    THEN [raised |-> "none", normalized |-> normalized]
    ELSE LET rec == records[i]
             given == "id" \in DOMAIN rec
             nid == IF given THEN next_id ELSE SkipSeen(next_id, seen_ids)
             rid == IF given THEN ToInt(rec.id) ELSE nid
             rec2 == IF given THEN rec ELSE Put(rec, "id", rid)
         IN IF given /\ rid \in seen_ids
            THEN [raised |-> "duplicate id", normalized |-> normalized]
            ELSE IF ~ValidFullSchema(rec2, schema)
            THEN [raised |-> "schema mismatch", normalized |-> normalized]
            ELSE Normalize(records, i + 1, nid, seen_ids \cup {rid},
                           Append(normalized, rec2), schema)

\* {rec["id"]: rec for rec in normalized}: a later record wins its key
ById(normalized) ==
    [k \in {normalized[i].id : i \in DOMAIN normalized} |->
        normalized[CHOOSE i \in DOMAIN normalized :
            /\ normalized[i].id = k
            /\ \A j \in DOMAIN normalized : j > i => normalized[j].id # k]]

\* records[:max_length] when the table has a bound and the batch exceeds it
Truncate(st, records) ==
    IF st.max_length # NoLimit /\ Len(records) > st.max_length
    THEN SubSeq(records, 1, st.max_length)
    ELSE records

\* mutant of SetStateOp: the records go into the table as the loop accepts
\* them, so a batch refused half way leaves its first records behind
SetStateOpInPlace(st, data, hookFails) ==
    IF data = <<>>
    THEN Return([st EXCEPT !.records = NoRecords, !.version = @ + 1],
                [accepted |-> 0, dropped |-> 0])
    ELSE
    LET records == Truncate(st, data)
        dropped == Len(data) - Len(records)
    IN  IF records = <<>>
        THEN Raise(st, "IndexError")
        ELSE
        LET first_fields == DOMAIN records[1] \ {"id"}
            st1 == IF st.schema = NoSchema
                   THEN [st EXCEPT !.schema = first_fields \cup {"id"}]
                   ELSE st
        IN  IF st.schema # NoSchema /\ first_fields # st.schema \ {"id"}
            THEN Raise(st, "schema mismatch")
            ELSE
            LET n == Normalize(records, 1, One, {}, <<>>, st1.schema)
            IN  IF n.raised # "none"
                THEN Raise([st1 EXCEPT !.records = ById(n.normalized)], n.raised)
                ELSE Persist([st1 EXCEPT !.records = ById(n.normalized),
                                         !.version = @ + 1],
                             [set_state |-> Len(n.normalized), dropped |-> dropped],
                             [accepted |-> Len(n.normalized), dropped |-> dropped],
                             hookFails)

\* set_state
SetStateOp(st, data, hookFails) ==
    IF data = <<>>
    THEN Return([st EXCEPT !.records = NoRecords, !.version = @ + 1],
                [accepted |-> 0, dropped |-> 0])
    ELSE
    LET records == Truncate(st, data)
        dropped == Len(data) - Len(records)
    IN  IF records = <<>>
        THEN Raise(st, "IndexError")        \* records[0] of an empty list
        ELSE
        LET first_fields == DOMAIN records[1] \ {"id"}
            st1 == IF st.schema = NoSchema
                   THEN [st EXCEPT !.schema = first_fields \cup {"id"}]
                   ELSE st
        IN  IF st.schema # NoSchema /\ first_fields # st.schema \ {"id"}
            THEN Raise(st, "schema mismatch")
            ELSE
            LET n == Normalize(records, 1, One, {}, <<>>, st1.schema)
            IN  IF n.raised # "none"
                THEN Raise(st1, n.raised)
                ELSE Persist([st1 EXCEPT !.records = ById(n.normalized),
                                         !.version = @ + 1],
                             [set_state |-> Len(n.normalized), dropped |-> dropped],
                             [accepted |-> Len(n.normalized), dropped |-> dropped],
                             hookFails)

\* create_record
CreateRecordOp(st, record, hookFails) ==
    IF AtCapacity(st)
    THEN Raise(st, "max_length reached")
    ELSE
    LET st1 == IF st.schema = NoSchema
               THEN [st EXCEPT !.schema = InferSchema(record)]
               ELSE st
        given == "id" \in DOMAIN record
        rid == IF given THEN ToInt(record.id) ELSE Max(DOMAIN st.records) + One
        rec == IF given THEN record ELSE Put(record, "id", rid)
    IN  IF st.schema # NoSchema /\ DOMAIN record \cup {"id"} # st.schema
        THEN Raise(st, "schema mismatch")
        ELSE IF given /\ rid \in DOMAIN st.records
        THEN Raise(st1, "duplicate id")
        ELSE Persist([st1 EXCEPT !.records = Put(@, rid, rec), !.version = @ + 1],
                     [create_record |-> rec], rid, hookFails)

\* mutant of SetRecordOp: the schema is inferred from every record written
SetRecordOpReinfer(st, record_id, record, hookFails) ==
    LET rec == Put(record, "id", record_id)
    IN  Persist([st EXCEPT !.schema = InferSchema(rec),
                           !.records = Put(@, record_id, rec),
                           !.version = @ + 1],
                [set_record |-> rec], TRUE, hookFails)

\* set_record
SetRecordOp(st, record_id, record, hookFails) ==
    LET rec == Put(record, "id", record_id)
        st1 == IF st.schema = NoSchema
               THEN [st EXCEPT !.schema = InferSchema(rec)]
               ELSE st
    IN  IF st.schema # NoSchema /\ ~ValidFullSchema(rec, st.schema)
        THEN Raise(st, "schema mismatch")
        ELSE Persist([st1 EXCEPT !.records = Put(@, record_id, rec),
                                 !.version = @ + 1],
                     [set_record |-> rec], TRUE, hookFails)

\* rec.update(changes)
Update(rec, changes) ==
    [f \in DOMAIN rec \cup DOMAIN changes |->
        IF f \in DOMAIN changes THEN changes[f] ELSE rec[f]]

\* mutant of PatchRecordOp: the id among the changes is not dropped
PatchRecordOpKeepId(st, record_id, data, hookFails) ==
    IF record_id \notin DOMAIN st.records
    THEN Return(st, FALSE)
    ELSE IF st.schema = NoSchema
    THEN Raise(st, "schema undefined")
    ELSE IF ~ValidPatchSchema(data, st.schema)
    THEN Raise(st, "unknown fields")
    ELSE Persist([st EXCEPT !.records[record_id] = Update(@, data),
                            !.version = @ + 1],
                 [patch_record |-> Put(data, "id", record_id)], TRUE, hookFails)

\* patch_record
PatchRecordOp(st, record_id, data, hookFails) ==
    IF record_id \notin DOMAIN st.records
    THEN Return(st, FALSE)
    ELSE IF st.schema = NoSchema
    THEN Raise(st, "schema undefined")
    ELSE
    LET changes == Drop(data, "id")
    IN  IF ~ValidPatchSchema(changes, st.schema)
        THEN Raise(st, "unknown fields")
        ELSE Persist([st EXCEPT !.records[record_id] = Update(@, changes),
                                !.version = @ + 1],
                     [patch_record |-> Put(changes, "id", record_id)], TRUE, hookFails)

\* mutant of DeleteRecordOp: every record goes, not the one
DeleteRecordOpAll(st, record_id, hookFails) ==
    IF record_id \in DOMAIN st.records
    THEN Persist([st EXCEPT !.records = NoRecords, !.version = @ + 1],
                 [delete_record |-> record_id], TRUE, hookFails)
    ELSE Return(st, FALSE)

\* mutant of DeleteRecordOp: the version stays
DeleteRecordOpNoBump(st, record_id, hookFails) ==
    IF record_id \in DOMAIN st.records
    THEN Persist([st EXCEPT !.records = Drop(@, record_id)],
                 [delete_record |-> record_id], TRUE, hookFails)
    ELSE Return(st, FALSE)

\* delete_record
DeleteRecordOp(st, record_id, hookFails) ==
    IF record_id \in DOMAIN st.records
    THEN Persist([st EXCEPT !.records = Drop(@, record_id), !.version = @ + 1],
                 [delete_record |-> record_id], TRUE, hookFails)
    ELSE Return(st, FALSE)

\* get_record
GetRecord(st, record_id) ==
    IF record_id \in DOMAIN st.records THEN st.records[record_id] ELSE NoRecord

\* list_records: the records, in the dict's order, which the model leaves out
ListRecords(st) == {st.records[k] : k \in DOMAIN st.records}

\* get_schema: sorted(schema), one list per set
GetSchema(st) == st.schema

\* get_state_info
GetStateInfo(st) ==
    [name |-> st.name, max_length |-> st.max_length,
     current_length |-> Cardinality(DOMAIN st.records),
     schema |-> GetSchema(st), version |-> st.version]

---------------------------------------------------------------------------
(* StateRegistry *)

\* mutant of Registered: no name is ever found
RegisteredNever(reg, name) == FALSE

\* `name in self.states`, the test of create, get and delete
Registered(reg, name) == name \in DOMAIN reg

\* StateRegistry.create: the new SharedState, wired to persist_to_db
RegistryCreate(reg, name, max_length) == Put(reg, name, NewState(name, max_length))

\* mutant of RegistryDelete: the whole registry is emptied
RegistryDeleteAll(reg, name) == <<>>

\* StateRegistry.delete
RegistryDelete(reg, name) == Drop(reg, name)

\* StateRegistry.list
RegistryList(reg) == DOMAIN reg

---------------------------------------------------------------------------
(* handle_message *)

\* a body that is JSON but not an object, such as []
NotAnObject == [not_an_object |-> TRUE]

IsObject(m) == "not_an_object" \notin DOMAIN m

\* (msg.get("cmd") or "").upper()
Cmd(m) == IF "cmd" \in DOMAIN m THEN m.cmd ELSE ""

\* no response yet
NoResp == <<>>

\* return {"status": "ok", ...}
Ok(reg, fields) ==
    [states |-> reg, resp |-> Put(fields, "status", "ok"), raised |-> "none",
     calls |-> <<>>]

\* return {"status": "error", "message": ...}
Error(reg, message) ==
    [states |-> reg, resp |-> [status |-> "error", message |-> message],
     raised |-> "none", calls |-> <<>>]

\* an exception leaves handle_message: there is no return value
Raises(reg, kind) ==
    [states |-> reg, resp |-> NoResp, raised |-> kind, calls |-> <<>>]

\* the reply to a table operation whose result is r: the table object was
\* mutated in place, so the registry holds it as the operation left it
TableReply(reg, name, r, fields) ==
    [states |-> Put(reg, name, r.st),
     resp |-> IF r.raised = "none" THEN Put(fields, "status", "ok") ELSE NoResp,
     raised |-> r.raised,
     calls |-> r.calls]

\* the commands that need an existing state (lines 309 to 351)
TableCommand(reg, m, hookFails) ==
    LET cmd == Cmd(m) IN
    IF "state" \notin DOMAIN m THEN Error(reg, "missing state")
    ELSE IF ~Registered(reg, m.state) THEN Error(reg, "not found")
    ELSE
    LET st == reg[m.state] IN
    CASE cmd = "SET_STATE" ->
            LET r == SetStateOp(st, m.data, hookFails)
            IN TableReply(reg, m.state, r, r.ret)
      [] cmd = "CREATE_RECORD" ->
            LET r == CreateRecordOp(st, m.data, hookFails)
            IN TableReply(reg, m.state, r, [id |-> r.ret])
      [] cmd = "SET_RECORD" ->
            LET r == SetRecordOp(st, ToInt(m.id), m.data, hookFails)
            IN TableReply(reg, m.state, r, <<>>)
      [] cmd = "PATCH_RECORD" ->
            LET r == PatchRecordOp(st, ToInt(m.id), m.data, hookFails)
            IN TableReply(reg, m.state, r, [patched |-> r.ret])
      [] cmd = "DELETE_RECORD" ->
            LET r == DeleteRecordOp(st, ToInt(m.id), hookFails)
            IN TableReply(reg, m.state, r, [deleted |-> r.ret])
      [] cmd = "GET_RECORD" ->
            Ok(reg, [record |-> GetRecord(st, ToInt(m.id))])
      [] cmd = "LIST_RECORDS" ->
            Ok(reg, [records |-> ListRecords(st)])
      [] OTHER -> Error(reg, "unknown command")

HandleMessage(reg, m, hookFails) ==
    LET cmd == Cmd(m) IN
    IF ~IsObject(m)
    THEN Raises(reg, "AttributeError")      \* msg.get
    ELSE
    IF cmd \in {"CREATE_STATE", "DELETE_STATE", "GET_STATE_INFO", "GET_SCHEMA"}
       /\ "state" \notin DOMAIN m
    THEN Raises(reg, "KeyError")            \* msg["state"]
    ELSE
    CASE cmd = "CREATE_STATE" ->
            IF Registered(reg, m.state)
            THEN Raises(reg, "already exists")
            ELSE Ok(RegistryCreate(reg, m.state, m.max_length),
                    [created |-> m.state, max_length |-> m.max_length])
      [] cmd = "DELETE_STATE" ->
            IF ~Registered(reg, m.state)
            THEN Raises(reg, "not found")
            ELSE Ok(RegistryDelete(reg, m.state), <<>>)
      [] cmd = "LIST_STATES" ->
            Ok(reg, [states |-> RegistryList(reg)])
      [] cmd = "GET_STATE_INFO" ->
            IF ~Registered(reg, m.state)
            THEN Raises(reg, "not found")
            ELSE Ok(reg, GetStateInfo(reg[m.state]))
      [] cmd = "GET_SCHEMA" ->
            IF ~Registered(reg, m.state)
            THEN Raises(reg, "not found")
            ELSE Ok(reg, [schema |-> GetSchema(reg[m.state])])
      [] OTHER -> TableCommand(reg, m, hookFails)

---------------------------------------------------------------------------
(* main: one turn of the loop, from sock.recv() to sock.send_json() *)

\* a body json.loads rejects
Unparsable == [unparsable |-> TRUE]

Parses(raw) == "unparsable" \notin DOMAIN raw

\* the exceptions the code raises as ValueError
ValueErrors ==
    {"schema mismatch", "duplicate id", "max_length reached", "unknown fields",
     "schema undefined", "already exists", "not found"}

\* the other exceptions: of records[0], of msg["state"], of msg.get, of the
\* hook
OtherExceptions == {"IndexError", "KeyError", "AttributeError", "persist failed"}

\* mutant of Catches: without the `except Exception` clause
CatchesValueErrorOnly(kind) == kind \in ValueErrors

\* `except ValueError` and `except Exception` around handle_message
Catches(kind) == kind \in ValueErrors \/ kind \in OtherExceptions

\* the body of the loop up to the response: json.loads in its try, then
\* handle_message in its try; an exception no clause catches leaves main()
MainTurn(reg, raw, hookFails) ==
    IF ~Parses(raw)
    THEN Error(reg, "invalid JSON")
    ELSE LET out == HandleMessage(reg, raw, hookFails)
         IN IF out.raised # "none" /\ Catches(out.raised)
            THEN [out EXCEPT !.resp = [status |-> "error", message |-> out.raised],
                             !.raised = "none"]
            ELSE out

WriteCommands ==
    {"SET_STATE", "CREATE_RECORD", "SET_RECORD", "PATCH_RECORD", "DELETE_RECORD"}

\* the requests a client sends: SET_STATE with a batch, and the others
BatchRequests ==
    {[cmd |-> "SET_STATE", state |-> n, data |-> d] :
        n \in StateNames, d \in Batches}

OtherRequests ==
    {[cmd |-> "CREATE_STATE", state |-> n, max_length |-> c] :
        n \in StateNames, c \in Caps}
    \cup {[cmd |-> c, state |-> n] :
        c \in {"DELETE_STATE", "GET_STATE_INFO", "GET_SCHEMA", "LIST_RECORDS",
               "BOGUS"},
        n \in StateNames}
    \cup {[cmd |-> c] : c \in {"LIST_STATES", "LIST_RECORDS", "CREATE_STATE", "BOGUS"}}
    \cup {[cmd |-> "CREATE_RECORD", state |-> n, data |-> d] :
        n \in StateNames, d \in Payloads}
    \cup {[cmd |-> c, state |-> n, id |-> i, data |-> d] :
        c \in {"SET_RECORD", "PATCH_RECORD"}, n \in StateNames, i \in Ids,
        d \in Payloads}
    \cup {[cmd |-> c, state |-> n, id |-> i] :
        c \in {"DELETE_RECORD", "GET_RECORD"}, n \in StateNames, i \in Ids}
    \cup {Unparsable, NotAnObject}

\* the model stops writing to a table after MaxVersion accepted writes
WithinBounds(raw) ==
    (/\ Cmd(raw) \in WriteCommands
     /\ "state" \in DOMAIN raw
     /\ raw.state \in DOMAIN states)
    => states[raw.state].version < MaxVersion

NoMsg == <<>>

Init ==
    /\ states = <<>>
    /\ pc = "recv"
    /\ msg = NoMsg
    /\ resp = NoResp
    /\ hook = <<>>
    /\ locked = {}
    /\ tasks = <<>>

\* raw = await sock.recv()
Recv ==
    /\ pc = "recv"
    /\ \/ \E raw \in BatchRequests : WithinBounds(raw) /\ msg' = raw
       \/ \E raw \in OtherRequests : WithinBounds(raw) /\ msg' = raw
    /\ pc' = "handle"
    /\ UNCHANGED <<states, resp, hook, locked, tasks>>

\* json.loads and handle_message, up to the response main() will send. The
\* loop handles one request at a time, so a table's lock is free when an
\* operation asks for it and is released before the operation returns.
Turn ==
    /\ pc = "handle"
    /\ \E hookFails \in BOOLEAN :
        \E out \in {MainTurn(states, msg, hookFails)} :
            /\ states' = out.states
            /\ resp' = out.resp
            /\ hook' = out.calls
            /\ pc' = IF out.raised = "none" THEN "send" ELSE "stopped"
    /\ UNCHANGED <<msg, locked, tasks>>

\* await sock.send_json(resp), and back to the top of the loop: the turn's
\* locals are dead
Send ==
    /\ pc = "send"
    /\ pc' = "recv"
    /\ msg' = NoMsg
    /\ resp' = NoResp
    /\ hook' = <<>>
    /\ UNCHANGED <<states, locked, tasks>>

CreateState == Cmd(msg) = "CREATE_STATE" /\ Turn

DeleteState == Cmd(msg) = "DELETE_STATE" /\ Turn

ListStates == Cmd(msg) = "LIST_STATES" /\ Turn

StateInfo == Cmd(msg) \in {"GET_STATE_INFO", "GET_SCHEMA"} /\ Turn

SetState == Cmd(msg) = "SET_STATE" /\ Turn

CreateRecord == Cmd(msg) = "CREATE_RECORD" /\ Turn

SetRecord == Cmd(msg) = "SET_RECORD" /\ Turn

PatchRecord == Cmd(msg) = "PATCH_RECORD" /\ Turn

DeleteRecord == Cmd(msg) = "DELETE_RECORD" /\ Turn

ReadRecords == Cmd(msg) \in {"GET_RECORD", "LIST_RECORDS"} /\ Turn

\* a body that does not parse or is no object, or a command outside the
\* vocabulary
BadRequest == (~Parses(msg) \/ ~IsObject(msg) \/ Cmd(msg) = "BOGUS") /\ Turn

Next ==
    \/ Recv
    \/ Send
    \/ CreateState
    \/ DeleteState
    \/ ListStates
    \/ StateInfo
    \/ SetState
    \/ CreateRecord
    \/ SetRecord
    \/ PatchRecord
    \/ DeleteRecord
    \/ ReadRecords
    \/ BadRequest

Spec == Init /\ [][Next]_vars

---------------------------------------------------------------------------
(* The same loop serving two table names: the registry commands on both,    *)
(* and a replace-one that gives a table records, a schema and a version.   *)

RegistryNames == {"users", "orders"}

RegistryRequests ==
    {[cmd |-> "CREATE_STATE", state |-> n, max_length |-> c] :
        n \in RegistryNames, c \in Caps}
    \cup {[cmd |-> c, state |-> n] :
        c \in {"DELETE_STATE", "GET_STATE_INFO", "GET_SCHEMA", "LIST_RECORDS"},
        n \in RegistryNames}
    \cup {[cmd |-> "LIST_STATES"]}
    \cup {[cmd |-> "SET_RECORD", state |-> n, id |-> One, data |-> d] :
        n \in RegistryNames, d \in {NoRecord, [name |-> "x"]}}

\* raw = await sock.recv()
RecvRegistry ==
    /\ pc = "recv"
    /\ \E raw \in RegistryRequests : WithinBounds(raw) /\ msg' = raw
    /\ pc' = "handle"
    /\ UNCHANGED <<states, resp, hook, locked, tasks>>

NextRegistry ==
    \/ RecvRegistry
    \/ Send
    \/ CreateState
    \/ DeleteState
    \/ ListStates
    \/ StateInfo
    \/ SetRecord
    \/ ReadRecords

SpecRegistry == Init /\ [][NextRegistry]_vars

---------------------------------------------------------------------------
(* Table operations called concurrently, as tasks of one event loop. A     *)
(* coroutine runs without interruption up to an await that suspends it:    *)
(* the acquisition of a lock that is held, and the call of the persistence *)
(* hook, which is user code and may suspend.                               *)

Tasks == 1 .. MaxTasks

\* the table the tasks work on
TaskTable == "users"

\* its state when the tasks start: after CREATE_STATE users max_length=cap
\* and SET_RECORD users id=1 data={name: x}
SeedTable(cap) ==
    SetRecordOp(NewState(TaskTable, cap), One, [name |-> "x"], FALSE).st

\* the bounds the table may have been created with: none, or one record
SeedCaps == {NoLimit, 1}

\* the operations a task may call: replace-all with a batch, and the others
TaskBatchRequests ==
    {[cmd |-> "SET_STATE", data |-> d] :
        d \in {<<>>, <<[name |-> "y"]>>, <<[id |-> One]>>,
               <<[id |-> One, name |-> "x"], [id |-> One, name |-> "y"]>>}}

TaskOtherRequests ==
    {[cmd |-> "CREATE_RECORD", data |-> d] :
        d \in {[name |-> "y"], [id |-> One, name |-> "y"]}}
    \cup {[cmd |-> "SET_RECORD", id |-> One, data |-> d] :
        d \in {[name |-> "y"], NoRecord}}
    \cup {[cmd |-> "PATCH_RECORD", id |-> i, data |-> d] :
        i \in {One, 2 * One}, d \in {[name |-> "y"], [age |-> "y"]}}
    \cup {[cmd |-> "DELETE_RECORD", id |-> i] : i \in {One, 2 * One}}
    \cup {[cmd |-> "GET_RECORD", id |-> One], [cmd |-> "LIST_RECORDS"]}

\* the operations whose body is inside `async with self.lock`
Guarded(m) ==
    m.cmd \in {"SET_STATE", "CREATE_RECORD", "SET_RECORD", "DELETE_RECORD",
               "LIST_RECORDS"}

\* the operation m on table st, up to its return or its call of the hook
OpResult(st, m) ==
    CASE m.cmd = "SET_STATE" -> SetStateOp(st, m.data, FALSE)
      [] m.cmd = "CREATE_RECORD" -> CreateRecordOp(st, m.data, FALSE)
      [] m.cmd = "SET_RECORD" -> SetRecordOp(st, ToInt(m.id), m.data, FALSE)
      [] m.cmd = "PATCH_RECORD" -> PatchRecordOp(st, ToInt(m.id), m.data, FALSE)
      [] m.cmd = "DELETE_RECORD" -> DeleteRecordOp(st, ToInt(m.id), FALSE)
      [] m.cmd = "GET_RECORD" -> Return(st, GetRecord(st, ToInt(m.id)))
      [] m.cmd = "LIST_RECORDS" -> Return(st, ListRecords(st))

\* mutant of CanAcquire: the lock is taken whether it is held or not
CanAcquireAlways(held, name) == TRUE

\* asyncio.Lock.acquire returns at once when the lock is not held
CanAcquire(held, name) == name \notin held

Idle == [pc |-> "idle"]

InitConcurrent ==
    /\ \E cap \in SeedCaps : states = [n \in {TaskTable} |-> SeedTable(cap)]
    /\ pc = "recv"
    /\ msg = NoMsg
    /\ resp = NoResp
    /\ hook = <<>>
    /\ locked = {}
    /\ tasks = [t \in Tasks |-> Idle]

\* a caller creates the task of an operation on the table
Call(t) ==
    /\ tasks[t].pc = "idle"
    /\ \/ \E m \in TaskBatchRequests :
            tasks' = [tasks EXCEPT ![t] = [pc |-> "called", msg |-> m]]
       \/ \E m \in TaskOtherRequests :
            tasks' = [tasks EXCEPT ![t] = [pc |-> "called", msg |-> m]]
    /\ UNCHANGED <<states, pc, msg, resp, hook, locked>>

\* the task runs the operation up to its return, its exception, or its call
\* of the hook, where it is suspended with the mutation committed; `holds`
\* tells whether it holds the table's lock meanwhile
RunBody(t, name, holds) ==
    LET m == tasks[t].msg
        r == OpResult(states[name], m)
    IN  /\ states' = Put(states, name, r.st)
        /\ IF r.calls = <<>>
           THEN /\ tasks' = [tasks EXCEPT ![t] =
                        [pc |-> "done", msg |-> m, raised |-> r.raised, ret |-> r.ret]]
                /\ UNCHANGED locked
           ELSE /\ tasks' = [tasks EXCEPT ![t] =
                        [pc |-> "persist", msg |-> m, ret |-> r.ret,
                         call |-> r.calls[1], version |-> r.st.version]]
                /\ locked' = IF holds THEN locked \cup {name} ELSE locked
        /\ UNCHANGED <<pc, msg, resp, hook>>

\* set_state, create_record, set_record, delete_record, list_records: the
\* body runs once the lock is acquired
GuardedOp(t) ==
    /\ tasks[t].pc = "called"
    /\ Guarded(tasks[t].msg)
    /\ CanAcquire(locked, TaskTable)
    /\ RunBody(t, TaskTable, TRUE)

\* patch_record and get_record: the body runs without the lock
UnguardedOp(t) ==
    /\ tasks[t].pc = "called"
    /\ ~Guarded(tasks[t].msg)
    /\ RunBody(t, TaskTable, FALSE)

\* mutant of HookReturns: a hook that raises takes the version bump back
HookReturnsUndo(t) ==
    /\ tasks[t].pc = "persist"
    /\ \E hookFails \in BOOLEAN :
        /\ tasks' = [tasks EXCEPT ![t] =
              [pc |-> "done", msg |-> @.msg, ret |-> @.ret,
               raised |-> IF hookFails THEN "persist failed" ELSE "none"]]
        /\ states' = IF hookFails
                     THEN [states EXCEPT ![TaskTable].version = @ - 1]
                     ELSE states
    /\ locked' = IF Guarded(tasks[t].msg) THEN locked \ {TaskTable} ELSE locked
    /\ UNCHANGED <<pc, msg, resp, hook>>

\* the hook returns or raises; the operation leaves `async with`, which
\* releases the lock, and returns or lets the exception through
HookReturns(t) ==
    /\ tasks[t].pc = "persist"
    /\ \E hookFails \in BOOLEAN :
        tasks' = [tasks EXCEPT ![t] =
            [pc |-> "done", msg |-> @.msg, ret |-> @.ret,
             raised |-> IF hookFails THEN "persist failed" ELSE "none"]]
    /\ locked' = IF Guarded(tasks[t].msg) THEN locked \ {TaskTable} ELSE locked
    /\ UNCHANGED <<states, pc, msg, resp, hook>>

NextConcurrent ==
    \E t \in Tasks :
        \/ Call(t)
        \/ GuardedOp(t)
        \/ UnguardedOp(t)
        \/ HookReturns(t)

SpecConcurrent == InitConcurrent /\ [][NextConcurrent]_vars

---------------------------------------------------------------------------
(* Vocabulary of the properties *)

\* the step that handles msg: from the request received to the response
Handled == pc = "handle" /\ pc' = "send"

\* msg is a request addressed to table n
Targets(n) == Parses(msg) /\ "state" \in DOMAIN msg /\ msg.state = n

\* the tables that live through the step
Surviving == DOMAIN states \cap DOMAIN states'

Count(st) == Cardinality(DOMAIN st.records)

\* a response that refuses the request (the persistence hook failing is not
\* a refusal: the write was accepted and committed before the hook ran)
Refusal(r) == r.status = "error" /\ r.message # "persist failed"

\* the field names a full record carries once its id is in place
FieldNames(record) == DOMAIN record \cup {"id"}

\* how many records of a batch a table with this bound keeps
KeptLen(st, data) ==
    IF st.max_length # NoLimit /\ st.max_length < Len(data)
    THEN st.max_length
    ELSE Len(data)

---------------------------------------------------------------------------
(* Properties *)

\* C1: in every reachable state, a table whose schema is set stores only
\* records whose field names are exactly the schema.
C1_RecordsMatchSchema ==
    \A n \in DOMAIN states :
        states[n].schema # NoSchema =>
            \A k \in DOMAIN states[n].records :
                DOMAIN states[n].records[k] = states[n].schema

\* C1 witness: a table with a schema of two fields holds two records after a
\* patch went through.
C1_Witness ==
    /\ pc = "send"
    /\ Cmd(msg) = "PATCH_RECORD"
    /\ resp.status = "ok" /\ resp.patched
    /\ \E n \in DOMAIN states :
        /\ states[n].schema = {"id", "name"}
        /\ Count(states[n]) = 2

\* the request writes full records whose field names are not the schema of st
WritesOtherFields(st) ==
    \/ /\ Cmd(msg) \in {"CREATE_RECORD", "SET_RECORD"}
       /\ FieldNames(msg.data) # st.schema
    \/ /\ Cmd(msg) = "SET_STATE"
       /\ \E i \in 1 .. KeptLen(st, msg.data) : FieldNames(msg.data[i]) # st.schema

\* C2: once a table has a schema, no step changes it while the table lives,
\* and a replace-all, create-one or replace-one that writes a record with
\* other field names is refused and leaves the table as it was.
C2_SchemaImmutable ==
    [][\A n \in Surviving :
        states[n].schema # NoSchema =>
            /\ states'[n].schema = states[n].schema
            /\ (Handled /\ Targets(n) /\ WritesOtherFields(states[n])) =>
                    (Refusal(resp') /\ states'[n] = states[n])]_vars

\* C2 witness: a replace-one without the field "name" was refused by a table
\* whose schema has it.
C2_Witness ==
    /\ pc = "send"
    /\ Cmd(msg) = "SET_RECORD"
    /\ "name" \notin DOMAIN msg.data
    /\ resp.status = "error" /\ resp.message = "schema mismatch"
    /\ \E n \in DOMAIN states :
        /\ Targets(n)
        /\ states[n].schema = {"id", "name"}
        /\ states[n].version = 1

\* C3: a replace-all that is refused leaves every table's records and
\* version as they were and calls the persistence hook not at all.
C3_ReplaceAllAtomic ==
    [][(Handled /\ Cmd(msg) = "SET_STATE" /\ Refusal(resp')) =>
        /\ hook' = <<>>
        /\ DOMAIN states' = DOMAIN states
        /\ \A n \in DOMAIN states :
            /\ states'[n].records = states[n].records
            /\ states'[n].version = states[n].version]_vars

\* C3 witness: a batch with a repeated id was refused by a table that holds
\* a record from an earlier write.
C3_Witness ==
    /\ pc = "send"
    /\ Cmd(msg) = "SET_STATE"
    /\ resp.status = "error" /\ resp.message = "duplicate id"
    /\ hook = <<>>
    /\ \E n \in DOMAIN states :
        /\ Targets(n)
        /\ Count(states[n]) = 1
        /\ states[n].version = 1

\* C4: a table has a schema only after a write was accepted: in every
\* reachable state a schema that is set goes with a version of at least 1.
C4_SchemaOnlyByAcceptedWrite ==
    \A n \in DOMAIN states :
        states[n].schema # NoSchema => states[n].version >= 1

\* C5: in every reachable state each stored record carries the id it is
\* stored under, and no two stored records carry the same id.
C5_IdsUniqueAndKeyed ==
    \A n \in DOMAIN states :
        \A k \in DOMAIN states[n].records :
            /\ states[n].records[k].id = k
            /\ \A j \in DOMAIN states[n].records :
                j # k => states[n].records[j].id # states[n].records[k].id

\* the response to msg says that its write was carried out: a write command
\* answered ok (a patch or a delete only when it found its record), or a
\* write whose persistence hook failed after the commit
WriteDone(r) ==
    \/ /\ Cmd(msg) \in {"SET_STATE", "CREATE_RECORD", "SET_RECORD"}
       /\ r.status = "ok"
    \/ /\ Cmd(msg) = "PATCH_RECORD"
       /\ r.status = "ok" /\ r.patched
    \/ /\ Cmd(msg) = "DELETE_RECORD"
       /\ r.status = "ok" /\ r.deleted
    \/ /\ r.status = "error" /\ r.message = "persist failed"

\* C6: a table starts at version 0; a step adds exactly 1 to the version of
\* the table whose write it carried out and leaves every other version as it
\* was: refused requests, patches and deletes of a missing id, and reads do
\* not change a version.
C6_VersionCountsWrites ==
    [][/\ \A n \in DOMAIN states' \ DOMAIN states : states'[n].version = 0
       /\ \A n \in Surviving :
            states'[n].version =
                IF Handled /\ Targets(n) /\ WriteDone(resp')
                THEN states[n].version + 1
                ELSE states[n].version]_vars

\* C6 witness: a delete of a present id took a table to version 2.
C6_Witness ==
    /\ pc = "send"
    /\ Cmd(msg) = "DELETE_RECORD"
    /\ resp.status = "ok" /\ resp.deleted
    /\ \E n \in DOMAIN states : Targets(n) /\ states[n].version = 2

\* C7: in every reachable state a table with a bound holds at most that
\* many records.
C7_CountWithinBound ==
    \A n \in DOMAIN states :
        states[n].max_length # NoLimit => Count(states[n]) <= states[n].max_length

\* C8: a create-one on a table that holds at least max_length records is
\* refused as over capacity, leaves the table as it was and does not call the
\* persistence hook; and a create-one on a table within its bound leaves it
\* within its bound.
C8_CreateAtCapacity ==
    [][\A n \in Surviving :
        (/\ Handled /\ Targets(n)
         /\ Cmd(msg) = "CREATE_RECORD"
         /\ states[n].max_length # NoLimit) =>
            /\ Count(states[n]) >= states[n].max_length =>
                    /\ resp'.status = "error"
                    /\ resp'.message = "max_length reached"
                    /\ states'[n] = states[n]
                    /\ hook' = <<>>
            /\ Count(states[n]) <= states[n].max_length =>
                    Count(states'[n]) <= states[n].max_length]_vars

\* C8 witness: a table bounded to one record, holding one, refused a
\* create-one.
C8_Witness ==
    /\ pc = "send"
    /\ Cmd(msg) = "CREATE_RECORD"
    /\ resp.status = "error" /\ resp.message = "max_length reached"
    /\ \E n \in DOMAIN states :
        /\ Targets(n)
        /\ states[n].max_length = 1
        /\ Count(states[n]) = 1

\* the records of a batch that a table with this bound keeps
Kept(st, data) == SubSeq(data, 1, KeptLen(st, data))

GivesId(b, i) == "id" \in DOMAIN b[i]

\* a batch the table takes whatever the reading of the rules: every record
\* has the field names of the schema (of the first record, when the table has
\* none), and either no record gives an id or all give different whole ids
WellFormed(b, schema) ==
    /\ \A i \in DOMAIN b :
        FieldNames(b[i]) = (IF schema = NoSchema THEN FieldNames(b[1]) ELSE schema)
    /\ \/ \A i \in DOMAIN b : ~GivesId(b, i)
       \/ \A i \in DOMAIN b :
            /\ GivesId(b, i)
            /\ b[i].id = ToInt(b[i].id)
            /\ \A j \in DOMAIN b : j # i => b[j].id # b[i].id

\* the records a well-formed batch leaves in the table: the i-th record under
\* the id it gives, or under i when the batch gives no ids
StoredFrom(b) ==
    [k \in {IF GivesId(b, i) THEN b[i].id ELSE i * One : i \in DOMAIN b} |->
        LET i == CHOOSE i \in DOMAIN b :
                    k = (IF GivesId(b, i) THEN b[i].id ELSE i * One)
        IN Put(b[i], "id", k)]

\* C9: a replace-all of L records on a table bounded to N < L records, whose
\* first N records are well formed, is not refused, reports accepted = N and
\* dropped = L - N, and leaves exactly the first N records in the table.
C9_Truncation ==
    [][\A n \in Surviving :
        (/\ Handled /\ Targets(n)
         /\ Cmd(msg) = "SET_STATE"
         /\ states[n].max_length # NoLimit
         /\ Len(msg.data) > states[n].max_length
         /\ WellFormed(Kept(states[n], msg.data), states[n].schema)) =>
            /\ ~Refusal(resp')
            /\ resp'.status = "ok" =>
                    /\ resp'.accepted = states[n].max_length
                    /\ resp'.dropped = Len(msg.data) - states[n].max_length
            /\ states'[n].records = StoredFrom(Kept(states[n], msg.data))]_vars

\* the id the i-th record of batch b resolves to: the whole part of the id
\* it gives, or the smallest of 1, 2, ... that no earlier record resolved to
RECURSIVE ResolvedId(_, _)
ResolvedId(b, i) ==
    IF GivesId(b, i)
    THEN ToInt(b[i].id)
    ELSE LET earlier == {ResolvedId(b, j) : j \in 1 .. i - 1}
             free == {j * One : j \in 1 .. i} \ earlier
         IN CHOOSE k \in free : \A m \in free : k <= m

\* the i-th record gives an id whose whole part an earlier record resolved to
Clash(b, i) == GivesId(b, i) /\ ToInt(b[i].id) \in {ResolvedId(b, j) : j \in 1 .. i - 1}

\* the key the i-th record is stored under: the id it gives, or the id
\* assigned to it
KeyOf(b, i) == IF GivesId(b, i) THEN b[i].id ELSE ResolvedId(b, i)

\* C10 as amended: a replace-all is refused for a duplicate id only if some
\* record gives an id whose whole part equals the id an earlier record of the
\* batch resolved to, given or assigned; and when the replace-all is carried
\* out no record does, and each record is stored under the id it gives or, if
\* it gives none, under the smallest positive integer that no earlier record
\* of the batch resolved to.
C10_IdentityResolution ==
    [][\A n \in Surviving :
        (Handled /\ Targets(n) /\ Cmd(msg) = "SET_STATE") =>
            LET b == Kept(states[n], msg.data) IN
            /\ (resp'.status = "error" /\ resp'.message = "duplicate id") =>
                    \E i \in DOMAIN b : Clash(b, i)
            /\ (b # <<>> /\ WriteDone(resp')) =>
                    /\ \A i \in DOMAIN b : ~Clash(b, i)
                    /\ DOMAIN states'[n].records = {KeyOf(b, i) : i \in DOMAIN b}
                    /\ \A i \in DOMAIN b :
                        states'[n].records[KeyOf(b, i)] = Put(b[i], "id", KeyOf(b, i))]_vars

\* C10 witness: the batch [{id: 2, name: x}, {name: y}] was accepted with the
\* ids 2 and 1.
C10_Witness ==
    /\ pc = "send"
    /\ Cmd(msg) = "SET_STATE"
    /\ msg.data = <<[id |-> 2 * One, name |-> "x"], [name |-> "y"]>>
    /\ resp.status = "ok" /\ resp.accepted = 2
    /\ \E n \in DOMAIN states :
        /\ Targets(n)
        /\ states[n].records =
            (2 * One :> [id |-> 2 * One, name |-> "x"]) @@ (One :> [id |-> One, name |-> "y"])

\* C10 as first stated: a replace-all is refused for a duplicate id only if
\* two records of the batch give the same id.
C10_DuplicateOnlyAmongGiven ==
    [][\A n \in Surviving :
        (/\ Handled /\ Targets(n)
         /\ Cmd(msg) = "SET_STATE"
         /\ resp'.status = "error" /\ resp'.message = "duplicate id") =>
            LET b == Kept(states[n], msg.data) IN
            \E i, j \in DOMAIN b :
                /\ i < j
                /\ GivesId(b, i) /\ GivesId(b, j)
                /\ ToInt(b[i].id) = ToInt(b[j].id)]_vars

\* msg is a replace-all of table n with empty input
EmptyReplaceAll(n) == Targets(n) /\ Cmd(msg) = "SET_STATE" /\ msg.data = <<>>

\* C11: a replace-all with empty input clears the table's records, leaves
\* the schema as it was (set or not), adds exactly 1 to the version, answers
\* accepted = 0 and dropped = 0, and calls the persistence hook once.
C11_EmptyReplaceAll ==
    [][\A n \in Surviving :
        (Handled /\ EmptyReplaceAll(n)) =>
            /\ states'[n].records = NoRecords
            /\ states'[n].schema = states[n].schema
            /\ states'[n].version = states[n].version + 1
            /\ resp'.status = "ok" =>
                    (resp'.accepted = 0 /\ resp'.dropped = 0)
            /\ Len(hook') = 1]_vars

\* C11 without its last part: what an empty replace-all does to the table and
\* answers, the persistence hook aside.
C11_EmptyReplaceAllButHook ==
    [][\A n \in Surviving :
        (Handled /\ EmptyReplaceAll(n)) =>
            /\ states'[n].records = NoRecords
            /\ states'[n].schema = states[n].schema
            /\ states'[n].version = states[n].version + 1
            /\ resp' = [status |-> "ok", accepted |-> 0, dropped |-> 0]]_vars

\* msg is a create-one on table n
CreateOne(n) == Targets(n) /\ Cmd(msg) = "CREATE_RECORD"

\* the ids the table stores records under
StoredIds(st) == DOMAIN st.records

\* the table is full, or the record has not the field names of its schema:
\* the refusals that create-one looks for before it looks at the id
RefusedBeforeId(st, record) ==
    \/ st.max_length # NoLimit /\ Count(st) >= st.max_length
    \/ st.schema # NoSchema /\ FieldNames(record) # st.schema

\* the step inserted one record under the new id k and left the records the
\* table had as they were
InsertedAt(st, st2, k) ==
    /\ k \notin StoredIds(st)
    /\ StoredIds(st2) = StoredIds(st) \cup {k}
    /\ \A j \in StoredIds(st) : st2.records[j] = st.records[j]

\* C12: a create-one that is carried out inserts one record under a new id
\* and leaves the records the table had as they were; the id answered is that
\* id; it is max(ids stored, default 0) + 1 when the record gives no id. A
\* create-one whose record gives an id the table already stores is refused
\* (as a duplicate id, unless the table is full or the record does not fit
\* the schema) and leaves the table as it was.
C12_CreateIdentity ==
    [][\A n \in Surviving :
        (Handled /\ CreateOne(n)) =>
            LET st == states[n]
                st2 == states'[n]
                record == msg.data
            IN
            /\ WriteDone(resp') =>
                \E k \in StoredIds(st2) :
                    /\ InsertedAt(st, st2, k)
                    /\ resp'.status = "ok" => resp'.id = k
                    /\ "id" \notin DOMAIN record => k = Max(StoredIds(st)) + One
            /\ ("id" \in DOMAIN record /\ record.id \in StoredIds(st)) =>
                    /\ Refusal(resp')
                    /\ ~RefusedBeforeId(st, record) => resp'.message = "duplicate id"
                    /\ st2 = st]_vars

\* C12 for ids that are whole numbers: the record gives a whole id or none,
\* and the table stores its records under whole ids.
C12_CreateIdentityWholeIds ==
    [][\A n \in Surviving :
        (/\ Handled /\ CreateOne(n)
         /\ "id" \in DOMAIN msg.data => msg.data.id = ToInt(msg.data.id)
         /\ \A k \in StoredIds(states[n]) : k = ToInt(k)) =>
            LET st == states[n]
                st2 == states'[n]
                record == msg.data
            IN
            /\ WriteDone(resp') =>
                \E k \in StoredIds(st2) :
                    /\ InsertedAt(st, st2, k)
                    /\ resp'.status = "ok" => resp'.id = k
                    /\ "id" \notin DOMAIN record => k = Max(StoredIds(st)) + One
            /\ ("id" \in DOMAIN record /\ record.id \in StoredIds(st)) =>
                    /\ Refusal(resp')
                    /\ ~RefusedBeforeId(st, record) => resp'.message = "duplicate id"
                    /\ st2 = st]_vars

\* msg is a patch-one on table n
PatchOne(n) == Targets(n) /\ Cmd(msg) = "PATCH_RECORD"

\* C13: a patch-one on a table that has no schema, whatever the id, is
\* refused with the error that the schema is not yet defined.
C13_PatchBeforeSchema ==
    [][\A n \in Surviving :
        (Handled /\ PatchOne(n) /\ states[n].schema = NoSchema) =>
            /\ resp'.status = "error"
            /\ resp'.message = "schema undefined"]_vars

\* what a patch-one on a table without a schema does: the table holds no
\* record, so the id is missing, and the answer is patched = false
C13_PatchBeforeSchemaNotFound ==
    [][\A n \in Surviving :
        (Handled /\ PatchOne(n) /\ states[n].schema = NoSchema) =>
            /\ states[n].records = NoRecords
            /\ resp' = [status |-> "ok", patched |-> FALSE]
            /\ states'[n] = states[n]
            /\ hook' = <<>>]_vars

\* the id a record-level request hands to the table: rid = int(msg["id"])
TargetId == ToInt(msg.id)

\* C14: a patch-one changes neither the schema nor the set of ids stored nor
\* any record but its target. On a missing id it answers patched = false,
\* with the table as it was and no persistence call. On a stored id the
\* record keeps its field names and its id, also when the changes carry an
\* id; changes naming a field outside the schema are refused as unknown
\* fields with the table as it was and no persistence call; otherwise the
\* patch is carried out: the fields named, id aside, take the values given,
\* the others keep theirs, and the version grows by 1.
C14_PatchFrame ==
    [][\A n \in Surviving :
        (Handled /\ PatchOne(n)) =>
            LET st == states[n]
                st2 == states'[n]
                changes == msg.data
            IN
            /\ st2.schema = st.schema
            /\ StoredIds(st2) = StoredIds(st)
            /\ \A k \in StoredIds(st) \ {TargetId} : st2.records[k] = st.records[k]
            /\ TargetId \notin StoredIds(st) =>
                    /\ resp' = [status |-> "ok", patched |-> FALSE]
                    /\ st2 = st
                    /\ hook' = <<>>
            /\ TargetId \in StoredIds(st) =>
                    LET rec == st.records[TargetId]
                        rec2 == st2.records[TargetId]
                    IN
                    /\ DOMAIN rec2 = DOMAIN rec
                    /\ rec2.id = rec.id
                    /\ DOMAIN changes \ st.schema # {} =>
                            /\ resp'.status = "error"
                            /\ resp'.message = "unknown fields"
                            /\ st2 = st
                            /\ hook' = <<>>
                    /\ DOMAIN changes \subseteq st.schema =>
                            /\ WriteDone(resp')
                            /\ st2.version = st.version + 1
                            /\ \A f \in DOMAIN rec :
                                rec2[f] = IF f \in DOMAIN changes \ {"id"}
                                          THEN changes[f]
                                          ELSE rec[f]]_vars

\* C14 witness: a patch of record 1 whose changes carry the id 2 and a name
\* went through on a table of two records, and record 1 still has the id 1.
C14_Witness ==
    /\ pc = "send"
    /\ Cmd(msg) = "PATCH_RECORD"
    /\ msg.id = One
    /\ msg.data = [id |-> 2 * One, name |-> "y"]
    /\ resp.status = "ok" /\ resp.patched
    /\ \E n \in DOMAIN states :
        /\ Targets(n)
        /\ StoredIds(states[n]) = {One, 2 * One}
        /\ states[n].records[One] = [id |-> One, name |-> "y"]

\* msg is a delete-one on table n
DeleteOne(n) == Targets(n) /\ Cmd(msg) = "DELETE_RECORD"

\* C15: a delete-one leaves the schema as it was. On a stored id it removes
\* that record and no other, adds 1 to the version, calls the persistence
\* hook once with the id, and answers deleted = true; on a missing id it
\* answers deleted = false, leaves the table as it was and does not call the
\* hook.
C15_DeleteFrame ==
    [][\A n \in Surviving :
        (Handled /\ DeleteOne(n)) =>
            LET st == states[n]
                st2 == states'[n]
            IN
            /\ st2.schema = st.schema
            /\ TargetId \in StoredIds(st) =>
                    /\ StoredIds(st2) = StoredIds(st) \ {TargetId}
                    /\ \A k \in StoredIds(st2) : st2.records[k] = st.records[k]
                    /\ st2.version = st.version + 1
                    /\ hook' = <<[state |-> n, delta |-> [delete_record |-> TargetId]]>>
                    /\ ~Refusal(resp')
                    /\ resp'.status = "ok" => resp' = [status |-> "ok", deleted |-> TRUE]
            /\ TargetId \notin StoredIds(st) =>
                    /\ resp' = [status |-> "ok", deleted |-> FALSE]
                    /\ st2 = st
                    /\ hook' = <<>>]_vars

\* C15 witness: record 1 of a table of two records was deleted and record 2
\* is still there.
C15_Witness ==
    /\ pc = "send"
    /\ Cmd(msg) = "DELETE_RECORD"
    /\ msg.id = One
    /\ resp = [status |-> "ok", deleted |-> TRUE]
    /\ Len(hook) = 1
    /\ \E n \in DOMAIN states :
        /\ Targets(n)
        /\ StoredIds(states[n]) = {2 * One}
        /\ states[n].version = 2

\* msg names a table
NamesTable(m) == Parses(m) /\ "state" \in DOMAIN m

\* msg is a command that looks its table up in the registry (get or delete):
\* every command but CREATE_STATE and LIST_STATES
LooksUp(m) == NamesTable(m) /\ Cmd(m) \notin {"CREATE_STATE", "LIST_STATES"}

\* C16: a CREATE_STATE of a registered name is refused as already existing,
\* and a command that looks up or deletes an unregistered name is refused as
\* not found; either way the registry and every table in it (records,
\* schema, version, bound) are as they were and the persistence hook is not
\* called.
C16_RegistryErrors ==
    [][Handled =>
        /\ (NamesTable(msg) /\ Cmd(msg) = "CREATE_STATE" /\ msg.state \in DOMAIN states) =>
                /\ resp' = [status |-> "error", message |-> "already exists"]
                /\ states' = states
                /\ hook' = <<>>
        /\ (LooksUp(msg) /\ msg.state \notin DOMAIN states) =>
                /\ resp' = [status |-> "error", message |-> "not found"]
                /\ states' = states
                /\ hook' = <<>>]_vars

\* C16 witness: a second CREATE_STATE of "users", with another bound, was
\* refused while the registry holds two tables and "users" holds a record.
C16_Witness ==
    /\ pc = "send"
    /\ Cmd(msg) = "CREATE_STATE"
    /\ resp = [status |-> "error", message |-> "already exists"]
    /\ DOMAIN states = RegistryNames
    /\ states[msg.state].max_length # msg.max_length
    /\ states[msg.state].version = 1
    /\ Count(states[msg.state]) = 1

\* a response carrying status ok or status error
HasStatus(r) == "status" \in DOMAIN r /\ r.status \in {"ok", "error"}

\* C17: the loop never stops. A request is received only at the top of the
\* loop; the step that handles it, whatever the request, ends with a response
\* carrying status ok or error for that request; that response can be sent,
\* the next step sends it and returns to the top of the loop, and the top of
\* the loop is reached in no other way.
C17_OneReplyPerRequest ==
    /\ [](/\ pc \in {"recv", "handle", "send"}
          /\ pc = "send" => (HasStatus(resp) /\ ENABLED Send))
    /\ [][/\ pc' = "handle" => pc = "recv"
          /\ pc = "handle" => (pc' = "send" /\ msg' = msg /\ HasStatus(resp'))
          /\ pc = "send" => pc' = "recv"
          /\ pc' = "recv" => pc = "send"]_vars

\* C17 witness: a write whose persistence hook failed is about to be
\* answered with an error.
C17_Witness ==
    /\ pc = "send"
    /\ Len(hook) = 1
    /\ resp = [status |-> "error", message |-> "persist failed"]

\* the tables other than n are what they were
OthersUnchanged(n) ==
    \A o \in (DOMAIN states \cup DOMAIN states') \ {n} :
        o \in DOMAIN states /\ o \in DOMAIN states' /\ states'[o] = states[o]

\* C19: DELETE_STATE of a registered name removes that table, records
\* included, from the registry, leaves every other table as it was and does
\* not call the persistence hook; a CREATE_STATE of a name that is not
\* registered (whether it never was or was deleted) registers a table with
\* no records, no schema, version 0 and the bound of the request, whatever
\* the deleted table of that name held, and leaves the other tables as they
\* were.
C19_TableLifecycle ==
    [][/\ (DeleteState /\ "state" \in DOMAIN msg /\ msg.state \in DOMAIN states) =>
            /\ msg.state \notin DOMAIN states'
            /\ OthersUnchanged(msg.state)
            /\ hook' = <<>>
            /\ resp' = [status |-> "ok"]
       /\ (CreateState /\ "state" \in DOMAIN msg /\ msg.state \notin DOMAIN states) =>
            /\ msg.state \in DOMAIN states'
            /\ Count(states'[msg.state]) = 0
            /\ states'[msg.state].records = NoRecords
            /\ states'[msg.state].schema = NoSchema
            /\ states'[msg.state].version = 0
            /\ states'[msg.state].max_length = msg.max_length
            /\ states'[msg.state].name = msg.state
            /\ OthersUnchanged(msg.state)
            /\ hook' = <<>>
            /\ resp'.status = "ok"]_vars

\* C19 witness: a DELETE_STATE was answered ok, its table is gone and the
\* other table still holds its record.
C19_Witness ==
    /\ pc = "send"
    /\ Cmd(msg) = "DELETE_STATE"
    /\ resp = [status |-> "ok"]
    /\ msg.state \notin DOMAIN states
    /\ \E o \in DOMAIN states : Count(states[o]) = 1 /\ states[o].version = 1

\* the tasks inside the table's guard: the lock acquired, the hook not yet
\* returned
InGuard == {t \in DOMAIN tasks : tasks[t].pc = "persist" /\ Guarded(tasks[t].msg)}

\* task t runs the body of its operation in this step
Runs(t) == tasks[t].pc = "called" /\ tasks'[t].pc # "called"

\* C20: at most one replace-all, create-one, replace-one, delete-one or
\* list-all is inside the table's guard at a time, the lock being held
\* exactly while one is; such an operation runs its body only when no other
\* is inside the guard. A patch-one runs its body whether or not the guard
\* is held and leaves the lock as it is; when its target is stored and its
\* fields belong to the schema it commits the change and adds 1 to the
\* version, also while another operation is inside the guard waiting on the
\* persistence hook.
C20_GuardExclusion ==
    /\ [](/\ Cardinality(InGuard) <= 1
          /\ locked = (IF InGuard = {} THEN {} ELSE {TaskTable}))
    /\ [][\A t \in Tasks :
            /\ (Runs(t) /\ Guarded(tasks[t].msg)) => InGuard = {}
            /\ (Runs(t) /\ tasks[t].msg.cmd = "PATCH_RECORD") =>
                LET st == states[TaskTable]
                    st2 == states'[TaskTable]
                    k == ToInt(tasks[t].msg.id)
                    data == tasks[t].msg.data
                IN  /\ locked' = locked
                    /\ (k \in DOMAIN st.records /\ DOMAIN data \subseteq st.schema) =>
                        /\ st2.version = st.version + 1
                        /\ \A f \in DOMAIN data \ {"id"} : st2.records[k][f] = data[f]
                        /\ tasks'[t].pc = "persist"]_vars

\* C20 witness: a create-one holds the guard and waits on the hook while a
\* patch-one on the same table has committed its change on top of it.
C20_Witness ==
    \E a, b \in DOMAIN tasks :
        /\ tasks[a].pc = "persist" /\ tasks[a].msg.cmd = "CREATE_RECORD"
        /\ tasks[b].pc = "persist" /\ tasks[b].msg.cmd = "PATCH_RECORD"
        /\ locked = {TaskTable}
        /\ tasks[b].version = tasks[a].version + 1
        /\ states[TaskTable].version = tasks[b].version
        /\ states[TaskTable].records[One] = [id |-> One, name |-> "y"]
        /\ Count(states[TaskTable]) = 2

\* the table holds what the delta handed to the hook says was written
Committed(st, delta) ==
    /\ "create_record" \in DOMAIN delta =>
            \E k \in DOMAIN st.records : st.records[k] = delta.create_record
    /\ "set_record" \in DOMAIN delta =>
            \E k \in DOMAIN st.records : st.records[k] = delta.set_record
    /\ "patch_record" \in DOMAIN delta =>
            \E k \in DOMAIN st.records : st.records[k] = delta.patch_record
    /\ "delete_record" \in DOMAIN delta => delta.delete_record \notin DOMAIN st.records
    /\ "set_state" \in DOMAIN delta => Count(st) = delta.set_state

\* C18: the step of an operation that calls the persistence hook has, in
\* that same step and before the call, written the records the delta names
\* and added 1 to the version; an operation that is refused, or that leaves
\* records and version as they were, ends without calling the hook; and the
\* step in which the hook returns or raises changes nothing of the table, so
\* that a failing hook leaves records and version as committed. While a hook
\* runs the version is at least the one its operation committed.
C18_PersistAfterCommit ==
    /\ [](\A t \in DOMAIN tasks :
            tasks[t].pc = "persist" => states[TaskTable].version >= tasks[t].version)
    /\ [][\A t \in Tasks :
            LET st == states[TaskTable]
                st2 == states'[TaskTable]
            IN  /\ (Runs(t) /\ tasks'[t].pc = "persist") =>
                    /\ st2.version = st.version + 1
                    /\ tasks'[t].version = st2.version
                    /\ tasks'[t].call.state = TaskTable
                    /\ Committed(st2, tasks'[t].call.delta)
                /\ (Runs(t) /\ tasks'[t].pc = "done" /\ tasks'[t].raised # "none") =>
                    /\ st2.records = st.records
                    /\ st2.version = st.version
                /\ (Runs(t) /\ st2.records = st.records /\ st2.version = st.version) =>
                    tasks'[t].pc = "done"
                /\ (tasks[t].pc = "persist" /\ tasks'[t].pc = "done") =>
                    /\ states' = states
                    /\ tasks'[t].raised \in {"none", "persist failed"}]_vars

\* C18 witness: the hook of a replace-one has raised, while the hook of a
\* patch-one is still running; the table holds what both had committed.
C18_Witness ==
    \E a, b \in DOMAIN tasks :
        /\ tasks[a].pc = "done" /\ tasks[a].msg.cmd = "SET_RECORD"
        /\ tasks[a].raised = "persist failed"
        /\ tasks[b].pc = "persist" /\ tasks[b].msg.cmd = "PATCH_RECORD"
        /\ states[TaskTable].version = 3
        /\ states[TaskTable].records[One] = [id |-> One, name |-> "y"]

====
